---- MODULE Spec2Model ----
(***************************************************************************)
(* A model of FileBrowserModel (src/lib/model.js): directory navigation    *)
(* with request collapsing (cd), the 404 root fallback, session            *)
(* reconciliation, disposal, restoration from the state store (restore),   *)
(* and uploads: the checks and dialogs of upload and the transfer loop of  *)
(* _upload.                                                                *)
(*                                                                         *)
(* Strings are modelled as sequences of tokens: a token is either the      *)
(* separator "/" or a whole path segment, so 'a/b' is <<"a","/","b">>,     *)
(* the empty string '' is <<>> and the literal '/' is <<"/">>.             *)
(*                                                                         *)
(* One action is one macrotask of the single JavaScript thread together    *)
(* with all the microtasks (promise continuations) it triggers.            *)
(***************************************************************************)
EXTENDS Integers, Sequences, FiniteSets, TLC

(***************************************************************************)
(* Bounds of the model.                                                    *)
(***************************************************************************)
\* number of external cd calls (user navigation and poll ticks together)
MaxCalls == 3
\* number of 404 root fallbacks (cd('/') issued by the catch handler)
MaxFallbacks == 2
\* deepest directory a cd input may resolve to
MaxDepth == 2
\* number of changes of the session registry
MaxRegistry == 1
\* number of files uploaded
MaxUploads == 2
\* most pieces a file is split into
MaxPieces == 3
\* number of cd calls made while files are uploaded
MaxUploadCalls == 1
\* longest registry snapshot given to the session reconciliation
MaxSessions == 2
\* number of restore calls
MaxRestores == 2
\* number of cd calls made by the user around a restore
MaxRestoreCalls == 1
\* number of cd calls made before a disposal
MaxDisposeCalls == 3
\* number of upload(file) calls followed from their start
MaxFrontUploads == 1
\* navigation calls made by the user next to the poll
MaxPollCalls == 1
\* number of entries of a cached listing read through items()
MaxEntries == 2

(***************************************************************************)
(* Program constants.                                                      *)
(***************************************************************************)
LARGE_FILE_SIZE == 15 * 1024 * 1024
CHUNK_SIZE == 1024 * 1024

\* the value of an unset (null) string field
Null == <<"<null>">>
\* JavaScript truthiness of a string-or-null value: null and '' are falsy
Truthy(s) == s # Null /\ s # <<>>

DirNames == {"a"}
FileNames == {"x"}

(***************************************************************************)
(* Path resolution: contents.resolvePath(root, path) with no drive name,   *)
(* i.e. PathExt.resolve('/', root, path) with the leading slash removed.   *)
(***************************************************************************)
Segments(s) == SelectSeq(s, LAMBDA t : t # "/")

IsAbsolute(s) == Len(s) > 0 /\ s[1] = "/"

RECURSIVE Normalize(_, _)
Normalize(segs, acc) ==
    IF segs = <<>> THEN acc
    ELSE LET h == Head(segs) IN
         Normalize(Tail(segs),
                   IF h = "." THEN acc
                   ELSE IF h = ".."
                        THEN (IF acc = <<>> THEN acc ELSE SubSeq(acc, 1, Len(acc) - 1))
                        ELSE Append(acc, h))

RECURSIVE Join(_)
Join(segs) ==
    IF Len(segs) <= 1 THEN segs
    ELSE <<Head(segs), "/">> \o Join(Tail(segs))

resolvePath(root, p) ==
    Join(Normalize(IF IsAbsolute(p) THEN Segments(p)
                   ELSE Segments(root) \o Segments(p), <<>>))

Depth(p) == Len(Segments(p))

\* the path the content service reports for the child `name` of directory dir
ChildPath(dir, name) == IF dir = <<>> THEN <<name>> ELSE dir \o <<"/", name>>

\* the root path of a model without a drive name
rootPath == <<>>

(***************************************************************************)
(* State.                                                                  *)
(***************************************************************************)
VARIABLES
    path,         \* this._model.path
    items,        \* this._items: the names of the cached directory entries
    paths,        \* this._paths: the paths of the cached directory entries
    sessions,     \* this._sessions: paths of the retained sessions, in order
    pending,      \* this._pending: id of the fetch whose promise it holds, 0 = null
    pendingPath,  \* this._pendingPath
    isDisposed,   \* this._isDisposed
    running,      \* services.sessions.running(): the registry snapshot
    fetches,      \* every contents.get issued by cd, in request order
    calls,        \* every external cd call (navigation or poll tick), in call order
    sig,          \* the signals emitted by the last action, in emission order
    last,         \* what the last action was, and the state it started from
    nreg,         \* number of registry changes so far
    uploads,      \* this._uploads: the tracked upload objects, in array order
    ups,          \* every _upload call: its file, its position and what it did
    key,          \* this._key: the restoration id, NoKey while it is ''
    hasState,     \* whether this._state is a state store (not null)
    store,        \* the state store: the path of the record under each key, or Null
    restored,     \* whether this._restored has been resolved
    rst,          \* the restore call that set the key: its position and what it did
    poll,         \* this._poll: whether a refreshed tick is scheduled or running
    entries,      \* this._items as items() of the subclasses reads it: name and type, in order
    includeHiddenFiles,  \* this._includeHiddenFiles
    filter,       \* this._filter: what it returns for each file
    shown,        \* what the last call of items() yielded
    status        \* FileUploadStatus.Model: its _items, its timers, the events so far

navVars == <<path, items, paths, sessions, pending, pendingPath, isDisposed,
             running, fetches, calls, sig, last, nreg>>

upVars == <<uploads, ups>>

restVars == <<key, hasState, store, restored, rst>>

vars == <<path, items, paths, sessions, pending, pendingPath, isDisposed,
          running, fetches, calls, sig, last, nreg, uploads, ups,
          key, hasState, store, restored, rst, poll,
          entries, includeHiddenFiles, filter, shown, status>>

viewVars == <<entries, includeHiddenFiles, filter, shown, status>>

\* the registry snapshots the session registry may report
RunningChoices == { <<>>, <<<<"a", "/", "x">>, <<"x">>>> }

\* the listings the content service may return for a directory
Listings == SUBSET FileNames

\* the raw arguments of navigation calls; cd('.') is what a poll tick calls
CdInputs == { <<"/">>, <<"..">> } \cup { <<d>> : d \in DirNames }

Snapshot == [path |-> path, items |-> items, sessions |-> sessions]

Event(name, old, new) == [name |-> name, old |-> old, new |-> new]
Plain(name) == Event(name, Null, Null)

\* what a handler of event e reads when it is called: the current path, the
\* entries of items() and the sessions of sessions() at the emit
At(e, p, its, ss) ==
    [name |-> e.name, old |-> e.old, new |-> e.new,
     path |-> p, items |-> its, sessions |-> ss]

NoOp(op) == [op |-> op, f |-> 0, resp |-> "none", pre |-> Snapshot, post |-> Snapshot]

(***************************************************************************)
(* _populateSessions: keep the sessions whose path is a cached entry path. *)
(***************************************************************************)
\* a reconciliation that forgets the membership test
populateSessionsAll(models, ps) == models

populateSessions(models, ps) == SelectSeq(models, LAMBDA m : m \in ps)

(***************************************************************************)
(* Promise plumbing of cd.  The promise of fetch f is resolved when its    *)
(* handler returns, except that after a 404 the catch handler returns      *)
(* this.cd('/'), so the promise of f follows the promise of the fallback.  *)
(***************************************************************************)
\* the fetches whose promise resolves when the promise of h resolves
RECURSIVE ChainSet(_)
ChainSet(h) ==
    IF fetches[h].fallbackOf = 0 THEN {h}
    ELSE {h} \cup ChainSet(fetches[h].fallbackOf)

RECURSIVE SeqOfSet(_)
SeqOfSet(S) ==
    IF S = {} THEN <<>>
    ELSE LET m == CHOOSE x \in S : \A y \in S : x <= y
         IN <<m>> \o SeqOfSet(S \ {m})

\* the calls suspended in `await this._pending` on the promise of fetch h
WaitersOf(h) == SeqOfSet({c \in DOMAIN calls : calls[c].wait = h})

\* the order in which suspended calls resume when the promise of h resolves:
\* those awaiting h itself, then those awaiting the fetch h is the fallback of
RECURSIVE ResumeSeq(_)
ResumeSeq(h) ==
    WaitersOf(h) \o (IF fetches[h].fallbackOf = 0 THEN <<>>
                     ELSE ResumeSeq(fetches[h].fallbackOf))

NewFetch(target, old, by, direct, fallbackOf, pre) ==
    [target |-> target, oldValue |-> old, st |-> "inflight", resp |-> "none",
     by |-> by, direct |-> direct, fallbackOf |-> fallbackOf,
     pre |-> pre, quiet |-> TRUE, late |-> isDisposed, changed |-> FALSE]

\* another handler changed the cached state while these fetches were in flight
Disturb(fs) == [i \in DOMAIN fs |-> [fs[i] EXCEPT !.quiet = FALSE]]

NumFallbacks == Cardinality({f \in DOMAIN fetches : fetches[f].by = 0})

(***************************************************************************)
(* Construction: the model starts at the root path with nothing cached.    *)
(***************************************************************************)
NavInit ==
    /\ path = rootPath
    /\ items = {}
    /\ paths = {}
    /\ sessions = <<>>
    /\ pending = 0
    /\ pendingPath = Null
    /\ isDisposed = FALSE
    /\ running = <<>>
    /\ fetches = <<>>
    /\ calls = <<>>
    /\ sig = <<>>
    /\ last = NoOp("init")
    /\ nreg = 0

UploadInit ==
    /\ uploads = <<>>
    /\ ups = <<>>

\* the restoration ids; the key is `file-browser-${id}:cwd`
RestoreIds == {"i", "j"}

NoKey == ""

\* no restore call has set the key yet
RestoreIdle ==
    [pc |-> "idle", id |-> NoKey, p |-> Null, c |-> 0, failed |-> FALSE, n |-> 0]

\* a model constructed without a state store
NoStateInit ==
    /\ key = NoKey
    /\ hasState = FALSE
    /\ store = [k \in RestoreIds |-> Null]
    /\ restored = FALSE
    /\ rst = RestoreIdle

\* the poll with no refreshed tick scheduled or running
PollIdle == [phase |-> "idle", c |-> 0]

PollInit == poll = PollIdle

\* the names of cached entries, as character sequences: a hidden one, a
\* plain one and one with a dot inside
EntryNameSet == {<<".", "h">>, <<"v">>, <<"v", ".", "t">>}

\* model => Object.freeze({}), the filter of a model constructed without one
DefaultFilter == [n \in EntryNameSet |-> "object"]

\* a model with nothing cached, hidden files left out and no filter
\* the uploads the status item is told about, by the name they are saved as
StatusPaths == {"x", "y", "z"}

\* the progress an update reports, in percent
StatusProgress == {50}

\* a status model with no item, no timer running and no event received
StatusIdle ==
    [items |-> <<>>, timers |-> <<>>, phase |-> [p \in StatusPaths |-> "new"]]

ViewInit ==
    /\ entries = <<>>
    /\ includeHiddenFiles = FALSE
    /\ filter = DefaultFilter
    /\ shown = <<>>
    /\ status = StatusIdle

Init == NavInit /\ UploadInit /\ NoStateInit /\ PollInit /\ ViewInit

(***************************************************************************)
(* Uploads: _upload(file, chunked) and its helper uploadInner.             *)
(***************************************************************************)
UploadNames == {"x", "y"}

\* the sizes of the uploaded files: one that fits a single save, an exact
\* multiple of the chunk size, and one with a remainder (MaxPieces pieces)
Sizes == {CHUNK_SIZE, (MaxPieces - 1) * CHUNK_SIZE, (MaxPieces - 1) * CHUNK_SIZE + 1}

\* Array.prototype.indexOf for the upload object (u, k): 0-based, -1 if absent
indexOf(arr, u, k) ==
    LET hits == {i \in DOMAIN arr : arr[i].u = u /\ arr[i].k = k}
    IN IF hits = {} THEN -1
       ELSE (CHOOSE i \in hits : \A j \in hits : i <= j) - 1

\* Array.prototype.splice(start) with no delete count: drops arr[start..]
splice(arr, start) ==
    LET n == Len(arr)
        from == IF start < 0 THEN (IF n + start < 0 THEN 0 ELSE n + start)
                ELSE (IF start > n THEN n ELSE start)
    IN SubSeq(arr, 1, from)

\* ArrayExt.removeFirstWhere(this._uploads, e => file.name === e.path)
removeFirstWhere(arr, name) ==
    LET hits == {i \in DOMAIN arr : arr[i].path = <<name>>}
    IN IF hits = {} THEN arr
       ELSE LET i == CHOOSE h \in hits : \A j \in hits : h <= j
            IN SubSeq(arr, 1, i - 1) \o SubSeq(arr, i + 1, Len(arr))

\* a loop that ends one piece late: `end > file.size` in place of `>=`
lastChunkStrict(start, size) == start + CHUNK_SIZE > size

lastChunk(start, size) == start + CHUNK_SIZE >= size

\* the chunk field of the saved model; 0 stands for `undefined` (whole file)
chunkOf(r) ==
    IF ~r.chunked THEN 0
    ELSE IF lastChunk(r.start, r.size) THEN -1
    ELSE (r.start + CHUNK_SIZE) \div CHUNK_SIZE

\* this._uploadChanged.emit({name, ...}) carrying an upload of progress num/size
Emit(r, name, num) ==
    [r EXCEPT !.events = Append(@, [name |-> name, num |-> num, late |-> isDisposed])]

\* upload u starts a confirmation, a refresh or an encode step
Started(r, what) ==
    [r EXCEPT !.asked = Append(@, [what |-> what, late |-> isDisposed])]

\* the upload's promise rejects with err
Reject(r, err) == [r EXCEPT !.pc = "rejected", !.err = err]

\* the destination: path ? path + '/' + file.name : file.name
DestPath(p, name) == IF Truthy(p) THEN p \o <<"/", name>> ELSE <<name>>

\* a catch block that reports the failure and then tries the piece again
FailRetry(arr, r, err) ==
    <<removeFirstWhere(arr, r.name),
      [(IF r.chunked THEN Emit(r, "failure", r.start) ELSE r)
          EXCEPT !.pc = "reading", !.err = err]>>

\* the catch blocks of _upload: drop the tracking entry, report, rethrow
Fail(arr, r, err) ==
    <<removeFirstWhere(arr, r.name),
      [(IF r.chunked THEN Emit(r, "failure", r.start) ELSE r)
          EXCEPT !.pc = "rejected", !.err = err]>>

\* uploadInner up to the FileReader: the first disposed check, then the read
Inner(arr, r) ==
    IF isDisposed THEN Fail(arr, r, "disposed")
    ELSE <<arr, Started([r EXCEPT !.pc = "reading"], "encode")>>

\* one turn of the for loop of _upload, up to the suspension in uploadInner
Iteration(arr, r, u, start) ==
    LET k == start \div CHUNK_SIZE
        arr1 == Append(splice(arr, indexOf(arr, u, r.cur)),
                       [u |-> u, k |-> k, path |-> r.path, num |-> start])
        r1 == Emit([r EXCEPT !.start = start, !.cur = k], "update", start)
    IN Inner(arr1, r1)

\* the record of an upload(file) call that has done nothing yet; `before` is
\* the number of fetches issued before its call of refresh()
NewUpload(name, size, supportsChunked) ==
    [name |-> name, size |-> size, sc |-> supportsChunked,
     chunked |-> supportsChunked /\ size > CHUNK_SIZE,
     path |-> Null, pc |-> "new", start |-> 0, cur |-> -1, err |-> "none",
     events |-> <<>>, saves |-> <<>>, acked |-> 0, caught |-> FALSE,
     asked |-> <<>>, c |-> 0, before |-> 0, checked |-> Null]

\* _upload(file, chunked) up to its first suspension
TransferStart(arr, r, u) ==
    IF r.chunked THEN Iteration(arr, Emit(r, "start", 0), u, 0)
    ELSE Inner(arr, r)

\* upload() from its last disposed check on: with the model at path p it
\* calls _upload(file, chunked)
Proceed(arr, r, u, p) ==
    IF isDisposed THEN <<arr, Reject(r, "disposed")>>
    ELSE TransferStart(arr, [r EXCEPT !.path = DestPath(p, r.name)], u)

\* an upload that never looks at the listing after the refresh
AfterRefreshBlind(arr, r, u, p, its) ==
    IF isDisposed THEN <<arr, Reject(r, "disposed")>>
    ELSE Proceed(arr, [r EXCEPT !.c = 0], u, p)

\* upload() after `await this.refresh()`: the disposed check, the collision
\* check against the entries its, then the overwrite dialog or the transfer
AfterRefresh(arr, r, u, p, its) ==
    IF isDisposed THEN <<arr, Reject(r, "disposed")>>
    ELSE IF r.name \in its
    THEN <<arr, Started([r EXCEPT !.pc = "confirmOverwrite", !.c = 0, !.checked = p],
                        "overwrite")>>
    ELSE Proceed(arr, [r EXCEPT !.c = 0, !.checked = p], u, p)

\* the uploads todo, whose refresh() has returned, go on one after another
RECURSIVE ResumeUploads(_, _, _, _, _)
ResumeUploads(arr, rs, todo, p, its) ==
    IF todo = <<>> THEN <<arr, rs>>
    ELSE LET u == Head(todo)
             res == AfterRefresh(arr, rs[u], u, p, its)
         IN ResumeUploads(res[1], [rs EXCEPT ![u] = res[2]], Tail(todo), p, its)

\* the upload of record r is inside its `await this.refresh()`
Refreshing(r) == r.pc \in {"refreshWait", "refreshing"}

\* this._poll.refresh(): schedules a refreshed tick to run at once, unless
\* one is already scheduled or running
pollRefresh(p) == IF p.phase = "idle" THEN [p EXCEPT !.phase = "due"] ELSE p

\* upload() from its first disposed check on: the check, then refresh(),
\* which awaits the refreshed tick of the poll, the one running if there is one
StartRefresh(r) ==
    IF isDisposed THEN Reject(r, "disposed")
    ELSE LET r1 == [r EXCEPT !.before = Len(fetches)]
         IN IF poll.phase = "running"
            THEN Started([r1 EXCEPT !.pc = "refreshing", !.c = poll.c], "refresh")
            ELSE Started([r1 EXCEPT !.pc = "refreshWait"], "refresh")

\* the poll after upload() has gone on to the record r
PollAfter(r) == IF Refreshing(r) THEN pollRefresh(poll) ELSE poll

(***************************************************************************)
(* cd(newValue), up to its first suspension: resolve the target, collapse  *)
(* onto the pending fetch, wait for it, or issue the fetch at once.        *)
(* kind "poll" is a tick of the Poll, whose factory is cd('.').            *)
(***************************************************************************)
CdTarget(raw) ==
    IF raw # <<".">> THEN resolvePath(path, raw)
    ELSE IF Truthy(pendingPath) THEN pendingPath ELSE path

Cd(raw, kind) ==
    /\ Len(calls) < MaxCalls
    /\ kind = "poll" =>
         /\ raw = <<".">>
         /\ ~isDisposed
         /\ \A c \in DOMAIN calls : calls[c].kind = "poll" => calls[c].done
         /\ poll.phase = "idle"
    /\ LET newValue == CdTarget(raw)
           c == Len(calls) + 1
           settled == pending # 0 /\ fetches[pending].st = "resolved"
           collapse == pending # 0 /\ newValue = pendingPath
           waits == pending # 0 /\ ~collapse /\ ~settled
           issues == ~collapse /\ ~waits
           nf == Len(fetches) + 1
           \* earlier calls for the same target that have not settled and whose
           \* fetch has not failed
           peers == {d \in DOMAIN calls :
                       /\ calls[d].target = newValue
                       /\ ~calls[d].done
                       /\ calls[d].f # 0 => fetches[calls[d].f].st = "inflight"}
           group == IF peers = {} THEN c
                    ELSE calls[CHOOSE d \in peers : \A e \in peers : d <= e].group
           call == [raw |-> raw, target |-> newValue, kind |-> kind,
                    pendAt |-> pendingPath, group |-> group,
                    wait |-> IF waits THEN pending ELSE 0,
                    f |-> IF collapse THEN pending ELSE IF issues THEN nf ELSE 0,
                    done |-> collapse /\ settled,
                    seenPath |-> IF collapse /\ settled THEN path ELSE Null,
                    seenItems |-> IF collapse /\ settled THEN items ELSE {}]
       IN
       /\ Depth(newValue) <= MaxDepth
       /\ calls' = Append(calls, call)
       /\ IF issues
          THEN /\ pendingPath' = newValue
               /\ pending' = nf
               /\ sessions' = IF path # newValue THEN <<>> ELSE sessions
               /\ fetches' = Append(IF path # newValue THEN Disturb(fetches) ELSE fetches,
                                    NewFetch(newValue, path, c, TRUE, 0, Snapshot))
          ELSE UNCHANGED <<pendingPath, pending, sessions, fetches>>
       /\ sig' = <<>>
       /\ last' = NoOp("cd")
       /\ UNCHANGED <<path, items, paths, isDisposed, running, nreg>>

\* restore after an awaited cd: after cd('/') it validates the persisted
\* path with contents.get(path); after cd(localPath) it resolves restored
AfterCd(r) ==
    IF r.pc = "cdroot" THEN [r EXCEPT !.pc = "validating", !.c = 0]
    ELSE [r EXCEPT !.pc = "done"]

\* a handler that saves the path after every successful fetch
savesPathAlways(fr) == TRUE

\* if (oldValue !== newValue): the then-handler of the fetch fr saves the path
savesPath(fr) == fr.oldValue # fr.target

\* a target resolved only after the wait, against the path p of that moment
resumeTargetLate(c, p) ==
    IF calls[c].raw = <<".">> THEN calls[c].target ELSE resolvePath(p, calls[c].raw)

\* the target of call c when it resumes from `await this._pending` with the
\* model at p: newValue, resolved before the wait
resumeTarget(c, p) == calls[c].target

\* a failure reported once by the catch handler and once more by its caller
catchEmitsTwice(p, its, ss) ==
    <<At(Plain("connectionFailure"), p, its, ss),
      At(Plain("connectionFailure"), p, its, ss)>>

\* the catch handler of cd: this._connectionFailure.emit(error), in either branch
catchEmits(p, its, ss) == <<At(Plain("connectionFailure"), p, its, ss)>>

(***************************************************************************)
(* The response to fetch f arrives: the then/catch handlers of cd run,     *)
(* then every continuation the settled promise releases.                   *)
(***************************************************************************)
SettleFetch(f, resp, listing) ==
    /\ f \in DOMAIN fetches
    /\ fetches[f].st = "inflight"
    /\ resp # "ok" => listing = {}
    /\ LET fr == fetches[f]
           \* .then: the body after the isDisposed check
           handled == resp = "ok" /\ ~isDisposed
           \* .catch: the 404 branch
           fallback == resp = "404" /\ fr.target # <<"/">>
           path1 == IF handled THEN fr.target ELSE path
           \* this._state && this._key
           keyed == hasState /\ key # NoKey
           items1 == IF handled THEN listing ELSE items
           paths1 == IF handled THEN {ChildPath(fr.target, n) : n \in listing} ELSE paths
           sessions1 == IF handled THEN populateSessions(running, paths1) ELSE sessions
           pending1 == IF resp = "ok" /\ isDisposed THEN pending ELSE 0
           pendingPath1 == IF resp = "ok" /\ isDisposed THEN pendingPath ELSE Null
           \* pathChanged is emitted before onRunningChanged repopulates sessions
           sig1 == IF handled
                   THEN (IF fr.oldValue # fr.target
                         THEN <<At(Event("pathChanged", fr.oldValue, fr.target),
                                   path1, items1, sessions)>>
                         ELSE <<>>)
                        \o <<At(Plain("refreshed"), path1, items1, sessions1),
                             At(Plain("refreshed"), path1, items1, sessions1)>>
                   ELSE IF resp = "ok" THEN <<>>
                   ELSE catchEmits(path, items, sessions)
           post == [path |-> path1, items |-> items1, sessions |-> sessions1]
           \* this.cd('/') of the catch handler
           rootT == resolvePath(path1, <<"/">>)
           \* continuations released when the promise of f resolves
           resume == IF fallback THEN <<>> ELSE ResumeSeq(f)
           k == Len(resume)
           n0 == Len(fetches)
           done == IF fallback THEN {} ELSE ChainSet(f)
           idx(c) == CHOOSE j \in 1..k : resume[j] = c
           moved == \/ (fallback /\ path1 # rootT)
                    \/ \E j \in 1..k : resumeTarget(resume[j], path1) # path1
           fs0 == IF handled \/ moved THEN Disturb(fetches) ELSE fetches
           fs1 == [i \in DOMAIN fs0 |->
                     IF i = f
                     THEN [fs0[i] EXCEPT !.st = IF fallback THEN "chained" ELSE "resolved",
                                         !.resp = resp, !.quiet = fr.quiet,
                                         !.changed = handled /\ path1 # path /\ keyed]
                     ELSE IF i \in done THEN [fs0[i] EXCEPT !.st = "resolved"]
                     ELSE fs0[i]]
           issued == IF fallback
                     THEN <<NewFetch(rootT, path1, 0, FALSE, f, post)>>
                     ELSE [j \in 1..k |->
                             NewFetch(resumeTarget(resume[j], path1), path1, resume[j],
                                      FALSE, 0, post)]
       IN
       /\ fallback => NumFallbacks < MaxFallbacks
       /\ path' = path1
       /\ items' = items1
       /\ paths' = paths1
       /\ sessions' = IF moved THEN <<>> ELSE sessions1
       /\ pending' = IF issued # <<>> THEN n0 + Len(issued) ELSE pending1
       /\ pendingPath' = IF issued # <<>> THEN issued[Len(issued)].target
                         ELSE pendingPath1
       /\ fetches' = fs1 \o issued
       /\ calls' = [c \in DOMAIN calls |->
                      IF \E j \in 1..k : resume[j] = c
                      THEN [calls[c] EXCEPT !.wait = 0, !.f = n0 + idx(c)]
                      ELSE IF calls[c].f \in done /\ ~calls[c].done
                      THEN [calls[c] EXCEPT !.done = TRUE, !.seenPath = path1,
                                            !.seenItems = items1]
                      ELSE calls[c]]
       \* refresh() returns to the uploads awaiting this fetch and emits refreshed
       /\ LET todo == SeqOfSet({u \in DOMAIN ups :
                                  ups[u].pc = "refreshing" /\ calls'[ups[u].c].done})
              res == ResumeUploads(uploads, ups, todo, path1, items1)
          IN /\ uploads' = res[1]
             /\ ups' = res[2]
             /\ sig' = sig1 \o [i \in 1..Len(todo) |->
                                  At(Plain("refreshed"), path1, items1, sessions')]
       /\ last' = [op |-> "settle", f |-> f, resp |-> resp, pre |-> Snapshot,
                   post |-> post]
       \* void this._state.save(this._key, { path: newValue })
       /\ store' = IF handled /\ savesPath(fr) /\ keyed
                   THEN [store EXCEPT ![key] = fr.target]
                   ELSE store
       \* a restore call awaiting a cd that has now settled goes on
       /\ rst' = IF rst.pc \in {"cdroot", "cdpath"} /\ calls'[rst.c].done
                 THEN AfterCd(rst)
                 ELSE rst
       /\ restored' = (restored \/ rst'.pc = "done")
       \* the factory call of the refreshed tick has settled: the tick is over
       /\ poll' = IF poll.phase = "running" /\ calls'[poll.c].done THEN PollIdle
                  ELSE poll
       /\ UNCHANGED viewVars
       /\ UNCHANGED <<isDisposed, running, nreg, key, hasState>>

(***************************************************************************)
(* dispose()                                                               *)
(***************************************************************************)
Dispose ==
    /\ ~isDisposed
    /\ isDisposed' = TRUE
    /\ sessions' = <<>>
    /\ items' = {}
    /\ fetches' = Disturb(fetches)
    /\ sig' = <<>>
    /\ last' = NoOp("dispose")
    \* this._poll.dispose() rejects the tick that refresh() is awaiting; for the
    \* other uploads, bookkeeping only: which were in flight at the disposal
    /\ ups' = [u \in DOMAIN ups |->
                 IF ups[u].pc \in {"refreshWait", "refreshing"}
                 THEN Reject(ups[u], "poll disposed")
                 ELSE [ups[u] EXCEPT !.caught = ups[u].pc \in {"reading", "saving"}]]
    /\ poll' = PollIdle
    /\ UNCHANGED viewVars
    /\ UNCHANGED <<path, paths, pending, pendingPath, running, calls, nreg, uploads>>
    /\ UNCHANGED restVars

(***************************************************************************)
(* The session registry changes; while the model is connected (not         *)
(* disposed) its runningChanged signal runs onRunningChanged.              *)
(***************************************************************************)
\* a disposal that leaves the model's signal connections in place
disconnectedNever == FALSE

\* Signal.clearData(this) of dispose() has removed the connections of the
\* model: runningChanged and fileChanged no longer reach it
disconnected == isDisposed

RegistryChange(models) ==
    /\ nreg < MaxRegistry
    /\ models # running
    /\ nreg' = nreg + 1
    /\ running' = models
    /\ IF disconnected
       THEN /\ sig' = <<>>
            /\ UNCHANGED <<sessions, fetches>>
       ELSE /\ sessions' = populateSessions(models, paths)
            /\ sig' = <<At(Plain("refreshed"), path, items, sessions')>>
            /\ fetches' = Disturb(fetches)
    /\ last' = NoOp("registry")
    /\ UNCHANGED <<path, items, paths, pending, pendingPath, isDisposed, calls>>
    /\ UNCHANGED upVars
    /\ UNCHANGED restVars
    /\ UNCHANGED <<poll, viewVars>>

NavNext ==
    \/ \E raw \in CdInputs : Cd(raw, "user") /\ UNCHANGED <<upVars, restVars, poll, viewVars>>
    \/ Cd(<<".">>, "poll") /\ UNCHANGED <<upVars, restVars, poll, viewVars>>
    \/ \E f \in DOMAIN fetches, resp \in {"ok", "404", "err"}, listing \in Listings :
          SettleFetch(f, resp, listing)
    \/ \E models \in RunningChoices : RegistryChange(models)

Spec == Init /\ [][NavNext]_vars

(***************************************************************************)
(* Navigation with a disposal: cd calls up to dispose(), and the fetch     *)
(* responses that arrive before and after it.                              *)
(***************************************************************************)
DisposeNext ==
    \/ \E raw \in CdInputs :
          /\ Len(calls) < MaxDisposeCalls
          /\ ~isDisposed
          /\ Cd(raw, "user")
          /\ UNCHANGED <<upVars, restVars, poll, viewVars>>
    \/ \E f \in DOMAIN fetches, resp \in {"ok", "404", "err"} :
          SettleFetch(f, resp, {})
    \/ Dispose

DisposeSpec == Init /\ [][DisposeNext]_vars

\* dispose() on a disposed model: if (this.isDisposed) return
DisposeAgain ==
    /\ isDisposed
    /\ sig' = <<>>
    /\ last' = NoOp("dispose")
    /\ UNCHANGED <<path, items, paths, sessions, pending, pendingPath, isDisposed,
                   running, fetches, calls, nreg>>
    /\ UNCHANGED <<upVars, restVars, poll, viewVars>>

(***************************************************************************)
(* Session reconciliation on its own: the model has some directory cached  *)
(* (any current directory with any listing), and the registry reports any  *)
(* snapshot of up to MaxSessions sessions.                                 *)
(***************************************************************************)
EntryNames == {"x", "y", "z"}

SessionPaths == {ChildPath(<<"a">>, n) : n \in EntryNames} \cup {<<"x">>}

Snapshots == UNION {[1..n -> SessionPaths] : n \in 0..MaxSessions}

ReconcileInit ==
    /\ path \in {rootPath} \cup {<<d>> : d \in DirNames}
    /\ items \in SUBSET EntryNames
    /\ paths = {ChildPath(path, n) : n \in items}
    /\ sessions = <<>>
    /\ pending = 0
    /\ pendingPath = Null
    /\ isDisposed = FALSE
    /\ running = <<>>
    /\ fetches = <<>>
    /\ calls = <<>>
    /\ sig = <<>>
    /\ last = NoOp("init")
    /\ nreg = 0
    /\ UploadInit
    /\ NoStateInit
    /\ PollInit
    /\ ViewInit

ReconcileNext == \E models \in Snapshots : RegistryChange(models)

ReconcileSpec == ReconcileInit /\ [][ReconcileNext]_vars

(***************************************************************************)
(* restore(id, populate): each action is restore up to its next await.     *)
(***************************************************************************)
\* the paths a persisted record may hold: none (no record), '' and 'a'
StoredPaths == {Null, <<>>, <<"a">>}

\* contents.localPath: the path without its drive prefix
localPath(p) == IF Len(p) > 0 /\ p[1] = "drive:" THEN Tail(p) ELSE p

\* a restore that never regards the model as restored
isRestoredNever == FALSE

\* const restored = !!this._key
isRestored == key # NoKey

RestoreInit ==
    /\ NavInit
    /\ UploadInit
    /\ key = NoKey
    /\ hasState \in BOOLEAN
    /\ store \in [RestoreIds -> StoredPaths]
    /\ ~hasState => store = [k \in RestoreIds |-> Null]
    /\ restored = FALSE
    /\ rst = RestoreIdle
    /\ PollInit
    /\ ViewInit

\* what a step of restore that calls no cd leaves alone
RestoreStep(op) ==
    /\ sig' = <<>>
    /\ last' = NoOp(op)
    /\ UNCHANGED <<path, items, paths, sessions, pending, pendingPath, isDisposed,
                   running, fetches, calls, nreg>>
    /\ UNCHANGED upVars
    /\ UNCHANGED <<poll, viewVars>>

\* restore awaits this.cd(raw): it goes on at once if cd returned a settled
\* promise, otherwise when the call settles
AwaitCd(raw, r) ==
    /\ Cd(raw, "restore")
    /\ UNCHANGED <<poll, viewVars>>
    /\ LET c == Len(calls) + 1
           r1 == [r EXCEPT !.c = c]
       IN rst' = IF calls'[c].done THEN AfterCd(r1) ELSE r1

\* restore(id, populate) up to `await manager.services.ready`
Restore(id, populate) ==
    /\ rst.n < MaxRestores
    /\ IF isRestored
       THEN /\ rst' = [rst EXCEPT !.n = @ + 1]
            /\ UNCHANGED <<key, restored>>
       ELSE /\ key' = id
            /\ rst' = [RestoreIdle EXCEPT
                         !.pc = IF ~populate \/ ~hasState THEN "done" ELSE "ready",
                         !.id = id, !.n = rst.n + 1]
            /\ restored' = (restored \/ ~populate \/ ~hasState)
    /\ RestoreStep("restore")
    /\ UNCHANGED <<hasState, store>>

\* manager.services.ready settles; restore calls state.fetch(key)
ReadyDone(ok) ==
    /\ rst.pc = "ready"
    /\ rst' = [rst EXCEPT !.pc = IF ok THEN "fetching" ELSE "rejected"]
    /\ RestoreStep("ready")
    /\ UNCHANGED <<key, hasState, store, restored>>

\* state.fetch(key) settles
StateFetchDone(ok) ==
    /\ rst.pc = "fetching"
    /\ LET value == store[key]
       IN IF ~ok
          THEN /\ rst' = [rst EXCEPT !.pc = "removing", !.failed = TRUE]
               /\ RestoreStep("fetched")
               /\ UNCHANGED restored
          ELSE IF value = Null
          THEN /\ rst' = [rst EXCEPT !.pc = "done"]
               /\ restored' = TRUE
               /\ RestoreStep("fetched")
          ELSE IF Truthy(value)
          THEN /\ AwaitCd(<<"/">>, [rst EXCEPT !.pc = "cdroot", !.p = value])
               /\ UNCHANGED restored
               /\ UNCHANGED upVars
          ELSE /\ rst' = [rst EXCEPT !.pc = "validating", !.p = value]
               /\ RestoreStep("fetched")
               /\ UNCHANGED restored
    /\ UNCHANGED <<key, hasState, store>>

\* contents.get(path), the check that the persisted path exists, settles
ValidateDone(ok) ==
    /\ rst.pc = "validating"
    /\ IF ok
       THEN /\ AwaitCd(localPath(rst.p), [rst EXCEPT !.pc = "cdpath"])
            /\ restored' = (restored \/ rst'.pc = "done")
            /\ UNCHANGED upVars
       ELSE /\ rst' = [rst EXCEPT !.pc = "removing", !.failed = TRUE]
            /\ RestoreStep("validated")
            /\ UNCHANGED restored
    /\ UNCHANGED <<key, hasState, store>>

\* state.remove(key) of the catch block settles
RemoveDone(ok) ==
    /\ rst.pc = "removing"
    /\ rst' = [rst EXCEPT !.pc = IF ok THEN "done" ELSE "rejected"]
    /\ store' = IF ok THEN [store EXCEPT ![key] = Null] ELSE store
    /\ restored' = (restored \/ ok)
    /\ RestoreStep("removed")
    /\ UNCHANGED <<key, hasState>>

RestoreNext ==
    \/ \E id \in RestoreIds, populate \in BOOLEAN : Restore(id, populate)
    \/ \E ok \in BOOLEAN : ReadyDone(ok)
    \/ \E ok \in BOOLEAN : StateFetchDone(ok)
    \/ \E ok \in BOOLEAN : ValidateDone(ok)
    \/ \E ok \in BOOLEAN : RemoveDone(ok)
    \/ \E raw \in CdInputs :
          /\ Cardinality({c \in DOMAIN calls : calls[c].kind = "user"}) < MaxRestoreCalls
          /\ Cd(raw, "user")
          /\ UNCHANGED <<upVars, restVars, poll, viewVars>>
    \/ \E f \in DOMAIN fetches, resp \in {"ok", "404", "err"} :
          SettleFetch(f, resp, {})

RestoreSpec == RestoreInit /\ [][RestoreNext]_vars

\* restore with every external call settling in the end, successfully or
\* not: services.ready, state.fetch, the validating contents.get,
\* state.remove and the directory fetches of cd
RestoreFairSpec ==
    /\ RestoreSpec
    /\ WF_vars(\E ok \in BOOLEAN : ReadyDone(ok))
    /\ WF_vars(\E ok \in BOOLEAN : StateFetchDone(ok))
    /\ WF_vars(\E ok \in BOOLEAN : ValidateDone(ok))
    /\ WF_vars(\E ok \in BOOLEAN : RemoveDone(ok))
    /\ WF_vars(\E f \in DOMAIN fetches, resp \in {"ok", "404", "err"} :
                  SettleFetch(f, resp, {}))

\* navigation of a model whose key is set by restore(id, false): no record is
\* fetched or removed, the store changes only by the saves of cd
SaveNext ==
    \/ \E id \in RestoreIds : Restore(id, FALSE)
    \/ \E raw \in CdInputs :
          Cd(raw, "user") /\ UNCHANGED <<upVars, restVars, poll, viewVars>>
    \/ \E f \in DOMAIN fetches, resp \in {"ok", "404", "err"} :
          SettleFetch(f, resp, {})

SaveSpec == RestoreInit /\ [][SaveNext]_vars

(***************************************************************************)
(* Uploads: the actions of upload and _upload.                             *)
(***************************************************************************)
UploadStep(op) ==
    /\ sig' = <<>>
    /\ last' = NoOp(op)
    /\ UNCHANGED <<path, items, paths, sessions, pending, pendingPath, isDisposed,
                   running, fetches, calls, nreg>>
    /\ UNCHANGED restVars

\* upload(file) from its last disposed check on
BeginTransfer(name, size, supportsChunked) ==
    /\ Len(ups) < MaxUploads
    /\ LET u == Len(ups) + 1
           res == Proceed(uploads, NewUpload(name, size, supportsChunked), u, path)
       IN /\ uploads' = res[1]
          /\ ups' = Append(ups, res[2])
    /\ UploadStep("upload")
    /\ UNCHANGED <<poll, viewVars>>

\* a destination worked out anew for each piece, from the directory of the moment
savePathNow(r) == DestPath(path, r.name)

\* contents.save(path, model): path is the variable _upload set at its start
savePath(r) == r.path

\* the FileReader of uploadInner finishes: second disposed check, then the save
ReaderDone(u, ok) ==
    /\ u \in DOMAIN ups
    /\ ups[u].pc = "reading"
    /\ LET r == ups[u]
           res == IF ~ok THEN Fail(uploads, r, "read")
                  ELSE IF isDisposed THEN Fail(uploads, r, "disposed")
                  ELSE <<uploads,
                         [r EXCEPT !.pc = "saving",
                                   !.saves = Append(@, [chunk |-> chunkOf(r),
                                                        path |-> savePath(r),
                                                        late |-> isDisposed])]>>
       IN /\ uploads' = res[1]
          /\ ups' = [ups EXCEPT ![u] = res[2]]
    /\ UploadStep("reader")
    /\ UNCHANGED <<poll, viewVars>>

\* contents.save of uploadInner settles
SaveDone(u, ok) ==
    /\ u \in DOMAIN ups
    /\ ups[u].pc = "saving"
    /\ LET r == [ups[u] EXCEPT !.acked = IF ok THEN @ + 1 ELSE @]
           res == IF ~ok THEN Fail(uploads, r, "save")
                  ELSE IF ~r.chunked THEN <<uploads, [r EXCEPT !.pc = "resolved"]>>
                  ELSE IF lastChunk(r.start, r.size)
                  THEN <<splice(uploads, indexOf(uploads, u, r.cur)),
                         [Emit(r, "finish", r.start) EXCEPT !.pc = "resolved"]>>
                  ELSE Iteration(uploads, r, u, r.start + CHUNK_SIZE)
       IN /\ uploads' = res[1]
          /\ ups' = [ups EXCEPT ![u] = res[2]]
    /\ UploadStep("save")
    /\ UNCHANGED <<poll, viewVars>>

(***************************************************************************)
(* upload(file) from its start: the size check, the large-file dialog, the *)
(* refresh of the listing, the collision check and the overwrite dialog.   *)
(***************************************************************************)
\* the sizes of the files given to upload: one that is saved whole, one that
\* is split, and one above the large-file threshold
FrontSizes == {CHUNK_SIZE, CHUNK_SIZE + 1, LARGE_FILE_SIZE + 1}

\* an upload that lets every size through
tooLargeNever(size, supportsChunked) == FALSE

\* largeFile && !supportsChunked
tooLarge(size, supportsChunked) == size > LARGE_FILE_SIZE /\ ~supportsChunked

\* this._unloadEventListener: whether the beforeunload handler sets the
\* confirmation message 'Files still uploading'
unloadAsks == Len(uploads) > 0

\* upload(file) up to its first suspension
Upload(name, size, supportsChunked) ==
    /\ Len(ups) < MaxFrontUploads
    /\ \A v \in DOMAIN ups : ups[v].name # name
    /\ LET r0 == NewUpload(name, size, supportsChunked)
           r1 == IF tooLarge(size, supportsChunked) THEN Reject(r0, "size limit")
                 ELSE IF size > LARGE_FILE_SIZE
                 THEN Started([r0 EXCEPT !.pc = "confirmLarge"], "confirmLarge")
                 ELSE StartRefresh(r0)
       IN /\ ups' = Append(ups, r1)
          /\ poll' = PollAfter(r1)
    /\ UNCHANGED viewVars
    /\ UNCHANGED uploads
    /\ UploadStep("upload")

\* a dialog whose answer is looked at only after the refresh has been started
ConfirmLargeLate(u, accept) ==
    /\ u \in DOMAIN ups
    /\ ups[u].pc = "confirmLarge"
    /\ ups' = [ups EXCEPT ![u] = IF accept THEN StartRefresh(ups[u])
                                 ELSE Reject(Started(ups[u], "refresh"), "cancelled")]
    /\ poll' = PollAfter(ups'[u])
    /\ UNCHANGED viewVars
    /\ UNCHANGED uploads
    /\ UploadStep("confirm")

\* the large-file dialog of _shouldUploadLarge is answered
ConfirmLarge(u, accept) ==
    /\ u \in DOMAIN ups
    /\ ups[u].pc = "confirmLarge"
    /\ ups' = [ups EXCEPT ![u] = IF accept THEN StartRefresh(ups[u])
                                 ELSE Reject(ups[u], "cancelled")]
    /\ poll' = PollAfter(ups'[u])
    /\ UNCHANGED viewVars
    /\ UNCHANGED uploads
    /\ UploadStep("confirm")

\* the refreshed tick scheduled by this._poll.refresh() runs: the poll stands
\* by if the page is hidden, otherwise it calls its factory, cd('.')
RefreshExecute(hidden) ==
    /\ ~isDisposed
    /\ poll.phase = "due"
    /\ LET waiting == {u \in DOMAIN ups : ups[u].pc = "refreshWait"}
           c == Len(calls) + 1
       IN /\ poll' = IF hidden THEN PollIdle ELSE [phase |-> "running", c |-> c]
          /\ UNCHANGED viewVars
          /\ IF hidden
             THEN /\ LET res == ResumeUploads(uploads, ups, SeqOfSet(waiting), path, items)
                     IN uploads' = res[1] /\ ups' = res[2]
                  /\ sig' = [i \in 1..Cardinality(waiting) |->
                               At(Plain("refreshed"), path, items, sessions)]
                  /\ last' = NoOp("standby")
                  /\ UNCHANGED <<path, items, paths, sessions, pending, pendingPath,
                                 isDisposed, running, fetches, calls, nreg>>
             ELSE /\ Cd(<<".">>, "refresh")
                  /\ ups' = [u \in DOMAIN ups |->
                               IF u \in waiting
                               THEN [ups[u] EXCEPT !.pc = "refreshing", !.c = c]
                               ELSE ups[u]]
                  /\ UNCHANGED uploads
    /\ UNCHANGED restVars

\* the overwrite dialog of shouldOverwrite is answered
ConfirmOverwrite(u, accept) ==
    /\ u \in DOMAIN ups
    /\ ups[u].pc = "confirmOverwrite"
    /\ LET res == IF accept THEN Proceed(uploads, ups[u], u, path)
                  ELSE <<uploads, Reject(ups[u], "File not uploaded")>>
       IN /\ uploads' = res[1]
          /\ ups' = [ups EXCEPT ![u] = res[2]]
    /\ UploadStep("overwrite")
    /\ UNCHANGED <<poll, viewVars>>

FrontNext ==
    \/ \E name \in UploadNames, size \in FrontSizes, sc \in BOOLEAN :
          Upload(name, size, sc)
    \/ \E u \in DOMAIN ups, accept \in BOOLEAN : ConfirmLarge(u, accept)
    \/ \E hidden \in BOOLEAN : RefreshExecute(hidden)
    \/ \E u \in DOMAIN ups, accept \in BOOLEAN : ConfirmOverwrite(u, accept)
    \/ \E f \in DOMAIN fetches, resp \in {"ok", "err"}, listing \in Listings :
          SettleFetch(f, resp, listing)
    \/ \E u \in DOMAIN ups, ok \in BOOLEAN : ReaderDone(u, ok)
    \/ \E u \in DOMAIN ups, ok \in BOOLEAN : SaveDone(u, ok)
    \/ Dispose

FrontSpec == Init /\ [][FrontNext]_vars

(***************************************************************************)
(* TogglableHiddenFileBrowserModel and FilterFileBrowserModel: items().    *)
(***************************************************************************)
\* what a filter may return for a file: a boolean, null, or a match
\* descriptor (an object)
FilterResults == {"true", "false", "null", "object"}

Filters == [EntryNameSet -> FilterResults]

EntryTypes == {"file", "directory"}

Entries == [name : EntryNameSet, type : EntryTypes]

\* the cached listings: up to MaxEntries entries in the order of the response
Caches == UNION {[1..n -> Entries] : n \in 0..MaxEntries}

\* value.name.startsWith('.')
startsWithDot(n) == Len(n) > 0 /\ n[1] = "."

\* a test that accepts the boolean true only
truthyStrict(res) == res = "true"

\* !!filtered
truthy(res) == res \in {"true", "object"}

\* TogglableHiddenFileBrowserModel.items()
togglableItems(es, include) ==
    IF include THEN es
    ELSE SelectSeq(es, LAMBDA value : ~startsWithDot(value.name))

\* FilterFileBrowserModel.items()
filterItems(es, include, f) ==
    SelectSeq(togglableItems(es, include),
              LAMBDA value : IF value.type = "directory" THEN TRUE
                             ELSE truthy(f[value.name]))

\* a model constructed with options.includeHiddenFiles and options.filter,
\* holding a cached listing
FilterInit ==
    /\ NavInit
    /\ UploadInit
    /\ NoStateInit
    /\ PollInit
    /\ entries \in Caches
    /\ includeHiddenFiles \in BOOLEAN
    /\ filter \in Filters
    /\ shown = <<>>
    /\ status = StatusIdle

\* what a call on the view of the model leaves alone
ViewStep(op) ==
    /\ sig' = <<>>
    /\ last' = NoOp(op)
    /\ UNCHANGED <<path, items, paths, sessions, pending, pendingPath, isDisposed,
                   running, fetches, calls, nreg>>
    /\ UNCHANGED <<upVars, restVars, entries, status>>

\* items(), read to its end
Items ==
    /\ shown' = filterItems(entries, includeHiddenFiles, filter)
    /\ ViewStep("items")
    /\ UNCHANGED <<poll, includeHiddenFiles, filter>>

\* showHiddenFiles(value)
ShowHiddenFiles(value) ==
    /\ includeHiddenFiles' = value
    /\ poll' = pollRefresh(poll)
    /\ ViewStep("showHiddenFiles")
    /\ UNCHANGED <<filter, shown>>

\* setFilter(filter)
SetFilter(f) ==
    /\ filter' = f
    /\ poll' = pollRefresh(poll)
    /\ ViewStep("setFilter")
    /\ UNCHANGED <<includeHiddenFiles, shown>>

FilterNext ==
    \/ Items
    \/ \E value \in BOOLEAN : ShowHiddenFiles(value)
    \/ \E f \in Filters : SetFilter(f)

FilterSpec == FilterInit /\ [][FilterNext]_vars

(***************************************************************************)
(* onFileChanged: a change reported by the contents manager, and the poll  *)
(* ticks that refresh the listing next to navigation calls.                *)
(***************************************************************************)
\* the paths a change carries: Null for a missing value or a value without a
\* path, an entry of the root, an entry of 'a'
ChangePaths == {Null, <<"x">>, <<"a", "/", "x">>}

\* PathExt.dirname of a relative path: the path without its last segment
dirname(p) == IF Len(p) <= 2 THEN <<>> ELSE SubSeq(p, 1, Len(p) - 2)

\* a test that takes every path below the directory for an entry of it
relevantToPrefix(v, p) ==
    /\ Truthy(v)
    /\ Len(v) > Len(p)
    /\ SubSeq(v, 1, Len(p)) = p

\* value && value.path && PathExt.dirname(value.path) === path
relevantTo(v, p) == Truthy(v) /\ dirname(v) = p

\* onFileChanged(sender, change), change = {oldValue, newValue}; the handler
\* is disconnected once the model is disposed
FileChanged(old, new) ==
    /\ ~disconnected
    /\ LET value == IF relevantTo(old, path) THEN old
                    ELSE IF relevantTo(new, path) THEN new
                    ELSE Null
       IN IF value # Null
          THEN /\ poll' = pollRefresh(poll)
               /\ sessions' = populateSessions(running, paths)
               /\ sig' = <<At(Event("fileChanged", old, new), path, items, sessions')>>
               /\ fetches' = Disturb(fetches)
          ELSE /\ sig' = <<>>
               /\ UNCHANGED <<poll, sessions, fetches>>
    /\ last' = [op |-> "fileChanged", f |-> 0, resp |-> "none", pre |-> Snapshot,
                post |-> [Snapshot EXCEPT !.sessions = sessions'],
                old |-> old, new |-> new]
    /\ UNCHANGED <<path, items, paths, pending, pendingPath, isDisposed, running,
                   calls, nreg>>
    /\ UNCHANGED <<upVars, restVars, viewVars>>

PollNext ==
    \/ \E raw \in CdInputs :
          Len(calls) < MaxPollCalls /\ Cd(raw, "user") /\ UNCHANGED <<upVars, restVars, poll, viewVars>>
    \/ Cd(<<".">>, "poll") /\ UNCHANGED <<upVars, restVars, poll, viewVars>>
    \/ \E old \in ChangePaths, new \in ChangePaths : FileChanged(old, new)
    \/ Upload("x", CHUNK_SIZE, TRUE)
    \/ \E hidden \in BOOLEAN : RefreshExecute(hidden)
    \/ \E f \in DOMAIN fetches, resp \in {"ok", "err"}, listing \in Listings :
          SettleFetch(f, resp, listing)
    \/ \E models \in RunningChoices : RegistryChange(models)

PollSpec == Init /\ [][PollNext]_vars

\* number of cd calls made around a disposal with notifications
MaxNotifiedCalls == 2

\* a disposal among navigations, fetch responses, registry changes and
\* content-change notifications
NotifiedNext ==
    \/ \E raw \in CdInputs :
          /\ Len(calls) < MaxNotifiedCalls
          /\ ~isDisposed
          /\ Cd(raw, "user")
          /\ UNCHANGED <<upVars, restVars, poll, viewVars>>
    \/ \E f \in DOMAIN fetches, resp \in {"ok", "404", "err"}, listing \in Listings :
          SettleFetch(f, resp, listing)
    \/ \E models \in RunningChoices : RegistryChange(models)
    \/ \E old \in ChangePaths, new \in ChangePaths : FileChanged(old, new)
    \/ Dispose
    \/ DisposeAgain

NotifiedSpec == Init /\ [][NotifiedNext]_vars

\* upload() of a small file next to a navigation of the user: the refresh,
\* the overwrite dialog and the transfer, with cd free to complete in between
MaxOverwriteCalls == 1

OverwriteNext ==
    \/ \E sc \in BOOLEAN : Upload("x", CHUNK_SIZE, sc)
    \/ RefreshExecute(FALSE)
    \/ \E u \in DOMAIN ups, accept \in BOOLEAN : ConfirmOverwrite(u, accept)
    \/ \E raw \in CdInputs :
          /\ Cardinality({c \in DOMAIN calls : calls[c].kind = "user"}) < MaxOverwriteCalls
          /\ Cd(raw, "user") /\ UNCHANGED <<upVars, restVars, poll, viewVars>>
    \/ \E f \in DOMAIN fetches, resp \in {"ok", "err"}, listing \in Listings :
          SettleFetch(f, resp, listing)
    \/ \E u \in DOMAIN ups, ok \in BOOLEAN : ReaderDone(u, ok)
    \/ \E u \in DOMAIN ups, ok \in BOOLEAN : SaveDone(u, ok)

OverwriteSpec == Init /\ [][OverwriteNext]_vars

UploadNext ==
    \/ \E name \in UploadNames, size \in Sizes, sc \in BOOLEAN :
          BeginTransfer(name, size, sc)
    \/ \E u \in DOMAIN ups, ok \in BOOLEAN : ReaderDone(u, ok)
    \/ \E u \in DOMAIN ups, ok \in BOOLEAN : SaveDone(u, ok)
    \/ Dispose
    \/ \E raw \in CdInputs :
          Len(calls) < MaxUploadCalls /\ Cd(raw, "user") /\ UNCHANGED <<upVars, restVars, poll, viewVars>>
    \/ \E f \in DOMAIN fetches : SettleFetch(f, "ok", {})

UploadSpec == Init /\ [][UploadNext]_vars

(***************************************************************************)
(* FileUploadStatus.Model: the items of the status bar, one for each       *)
(* upload the file browser model reports by uploadChanged.                 *)
(***************************************************************************)

\* ArrayExt.findFirstIndex(this._items, val => val.path === path): 1-based,
\* 0 stands for -1
findFirstIndex(arr, name) ==
    LET hits == {i \in DOMAIN arr : arr[i].path = <<name>>}
    IN IF hits = {} THEN 0 ELSE CHOOSE i \in hits : \A j \in hits : i <= j

\* ArrayExt.removeAt(array, index): nothing is removed if index is out of range
removeAt(arr, i) ==
    IF i \in DOMAIN arr THEN SubSeq(arr, 1, i - 1) \o SubSeq(arr, i + 1, Len(arr))
    ELSE arr

\* what a step of the status model leaves alone
StatusStep(op) ==
    /\ sig' = <<>>
    /\ last' = NoOp(op)
    /\ UNCHANGED <<path, items, paths, sessions, pending, pendingPath, isDisposed,
                   running, fetches, calls, nreg>>
    /\ UNCHANGED <<upVars, restVars, poll, entries, includeHiddenFiles, filter, shown>>

\* _uploadChanged(browse, uploads) for the event `name` of the upload saved
\* as p; an upload reports start, then updates, then finish or failure
UploadChanged(name, p, progress) ==
    /\ name = "start" => status.phase[p] = "new"
    /\ name # "start" => status.phase[p] = "started"
    /\ name # "update" => progress = 0
    /\ LET its == status.items
           idx == findFirstIndex(its, p)
       IN status' =
            IF name = "start"
            THEN [status EXCEPT
                    !.items = Append(its, [path |-> <<p>>, progress |-> 0,
                                           complete |-> FALSE]),
                    !.phase[p] = "started"]
            ELSE IF name = "update"
            THEN [status EXCEPT
                    !.items = IF idx # 0 THEN [its EXCEPT ![idx].progress = progress]
                              ELSE its]
            ELSE IF name = "finish"
            THEN [status EXCEPT
                    !.items = IF idx # 0 THEN [its EXCEPT ![idx].complete = TRUE]
                              ELSE its,
                    !.timers = IF idx # 0 THEN Append(@, [idx |-> idx, path |-> p])
                               ELSE @,
                    !.phase[p] = "finished"]
            ELSE [status EXCEPT
                    !.items = removeFirstWhere(its, p),
                    !.phase[p] = "failed"]
    /\ StatusStep(name)

\* the timer set by the oldest finish that still has one runs, after
\* UPLOAD_COMPLETE_MESSAGE_MILLIS: ArrayExt.removeAt(this._items, idx)
TimerFire ==
    /\ status.timers # <<>>
    /\ status' = [status EXCEPT
                    !.items = removeAt(@, Head(status.timers).idx),
                    !.timers = Tail(@)]
    /\ StatusStep("timer")

StatusNext ==
    \/ \E name \in {"start", "update", "finish", "failure"}, p \in StatusPaths,
          progress \in StatusProgress \cup {0} : UploadChanged(name, p, progress)
    \/ TimerFire

StatusSpec == Init /\ [][StatusNext]_vars

(***************************************************************************)
(* Navigation claims.                                                      *)
(***************************************************************************)
InFlight == {f \in DOMAIN fetches : fetches[f].st = "inflight"}

\* C1: at most one directory fetch (a contents.get issued by cd) is in
\* flight per model at any time.
C1_AtMostOneFetchInFlight == Cardinality(InFlight) <= 1

\* C2: cd calls for the same target made before the first of them settles
\* share exactly one contents.get for that target, and their promises settle
\* with the model in the same state (current path and entries).
C2_SameTargetCallsCollapse ==
    \A c, d \in DOMAIN calls :
        calls[c].group = calls[d].group =>
            /\ \A f, g \in DOMAIN fetches :
                  (fetches[f].by = c /\ fetches[g].by = d) => f = g
            /\ (calls[c].done /\ calls[d].done) =>
                  /\ calls[c].seenPath = calls[d].seenPath
                  /\ calls[c].seenItems = calls[d].seenItems

Succeeded == {f \in DOMAIN fetches : fetches[f].resp = "ok"}

\* C3: once all fetches have settled, the current path is the target of the
\* most recently requested fetch that completed successfully.
C3_LatestSuccessfulFetchWins ==
    (InFlight = {} /\ Succeeded # {}) =>
        path = fetches[CHOOSE f \in Succeeded : \A g \in Succeeded : g <= f].target

\* C4: a 404 of a non-root target emits connectionFailure and issues exactly
\* one further fetch, against the root; the failure of that root fetch issues
\* no further fetch.
C4_NotFoundRetriesOnce ==
    /\ \A f \in DOMAIN fetches :
          (fetches[f].resp = "404" /\ fetches[f].target # rootPath
                /\ fetches[f].fallbackOf = 0) =>
             /\ Cardinality({g \in DOMAIN fetches : fetches[g].fallbackOf = f}) = 1
             /\ \A g \in DOMAIN fetches :
                   fetches[g].fallbackOf = f => fetches[g].target = rootPath
    /\ (last.op = "settle" /\ last.resp = "404"
            /\ fetches[last.f].target # rootPath) =>
          \E i \in DOMAIN sig : sig[i].name = "connectionFailure"
    /\ \A f, g \in DOMAIN fetches :
          (fetches[f].target # rootPath /\ fetches[f].fallbackOf = 0
                /\ fetches[g].fallbackOf = f) =>
             \A h \in DOMAIN fetches : fetches[h].fallbackOf # g

\* C5: when the fetch of a cd call fails with an error other than not-found,
\* connectionFailure is emitted and path, items() and sessions() are as they
\* were immediately before that cd call (nothing else having touched them).
C5_FailureLeavesStateUntouched ==
    (last.op = "settle" /\ last.resp = "err"
        /\ fetches[last.f].direct /\ fetches[last.f].quiet) =>
       /\ \E i \in DOMAIN sig : sig[i].name = "connectionFailure"
       /\ last.post = fetches[last.f].pre

\* C6: a successful fetch emits pathChanged exactly when the current path
\* changes by it, carrying the previous and the new path, before refreshed.
C6_PathChangedIffPathChanges ==
    (last.op = "settle" /\ last.resp = "ok" /\ ~isDisposed) =>
       LET pc == {i \in DOMAIN sig : sig[i].name = "pathChanged"}
           rf == {i \in DOMAIN sig : sig[i].name = "refreshed"}
       IN /\ rf # {}
          /\ (pc # {}) <=> (last.post.path # last.pre.path)
          /\ Cardinality(pc) <= 1
          /\ \A i \in pc :
                /\ sig[i].old = last.pre.path
                /\ sig[i].new = last.post.path
                /\ \A j \in rf : i < j

\* C7: cd('.') made while a fetch is pending targets the pending path.
C7_DotTargetsPendingPath ==
    \A c \in DOMAIN calls :
        (calls[c].raw = <<".">> /\ calls[c].pendAt # Null) =>
            /\ calls[c].target = calls[c].pendAt
            /\ calls[c].wait = 0

(***************************************************************************)
(* Upload claims.                                                          *)
(***************************************************************************)
\* the start and update events of upload u, in emission order
ProgressEvents(u) ==
    SelectSeq(ups[u].events, LAMBDA e : e.name \in {"start", "update"})

EventCount(u, name) ==
    Cardinality({i \in DOMAIN ups[u].events : ups[u].events[i].name = name})

\* C8: for a chunked upload whose pieces were all saved, the progress values
\* of its start and update events are strictly increasing from 0, its last
\* event is finish, and uploads() has no entry for it afterwards.
C8_ProgressStrictlyIncreasing ==
    \A u \in DOMAIN ups :
        (ups[u].chunked /\ ups[u].pc = "resolved") =>
            LET pr == ProgressEvents(u)
                ev == ups[u].events
            IN /\ pr # <<>>
               /\ pr[1].num = 0
               /\ \A i \in 1..(Len(pr) - 1) : pr[i].num < pr[i + 1].num
               /\ ev[Len(ev)].name = "finish"
               /\ \A i \in DOMAIN uploads : uploads[i].u # u

\* C9: for a chunked upload in which the save of a piece failed, exactly one
\* failure event was emitted and uploads() has no entry for its destination
\* path, whatever the current directory was.
C9_FailedUploadIsUntracked ==
    \A u \in DOMAIN ups :
        (ups[u].chunked /\ ups[u].pc = "rejected" /\ ups[u].err = "save") =>
            /\ EventCount(u, "failure") = 1
            /\ \A i \in DOMAIN uploads : uploads[i].path # ups[u].path

\* C10: once the model is disposed while a chunked upload is in flight, the
\* upload rejects with the disposed error, no save is issued after the
\* disposal and no uploadChanged event is emitted after the disposal.
C10_DisposeStopsUpload ==
    \A u \in DOMAIN ups :
        ups[u].chunked =>
            /\ (ups[u].caught /\ ups[u].pc \in {"resolved", "rejected"}) =>
                  (ups[u].pc = "rejected" /\ ups[u].err = "disposed")
            /\ \A i \in DOMAIN ups[u].saves : ~ups[u].saves[i].late
            /\ \A i \in DOMAIN ups[u].events : ~ups[u].events[i].late

\* the chunked uploads that have emitted an update and neither finish nor failure
Running == {u \in DOMAIN ups : ups[u].chunked /\ ups[u].pc \in {"reading", "saving"}}

\* C11: uploads() holds exactly one entry for the destination path of every
\* chunked upload that has emitted its first update and not yet finish or
\* failure, and at most one entry per destination path, whatever other
\* uploads started, progressed or finished meanwhile.
C11_EveryRunningUploadTracked ==
    /\ \A u \in Running :
          Cardinality({i \in DOMAIN uploads : uploads[i].path = ups[u].path}) = 1
    /\ \A i, j \in DOMAIN uploads :
          uploads[i].path = uploads[j].path => i = j

\* ceil(size / CHUNK_SIZE)
Pieces(size) == (size + CHUNK_SIZE - 1) \div CHUNK_SIZE

\* C12: a chunked upload of a file of size S saves ceil(S / CHUNK_SIZE)
\* pieces, each only after the save of the one before succeeded; piece i
\* carries the chunk index i, except the last, which carries -1.
C12_ChunkIndicesInOrder ==
    \A u \in DOMAIN ups :
        ups[u].chunked =>
            LET sv == ups[u].saves
                n == Pieces(ups[u].size)
            IN /\ Len(sv) <= n
               /\ Len(sv) <= ups[u].acked + 1
               /\ \A i \in DOMAIN sv : sv[i].chunk = IF i = n THEN -1 ELSE i
               /\ ups[u].pc = "resolved" => (Len(sv) = n /\ ups[u].acked = n)

\* a chunked upload of MaxPieces pieces has completed
C12_Witness ==
    \E u \in DOMAIN ups :
        /\ ups[u].chunked
        /\ ups[u].pc = "resolved"
        /\ Len(ups[u].saves) = MaxPieces
        /\ ups[u].size % CHUNK_SIZE # 0

(***************************************************************************)
(* Session claims.                                                         *)
(***************************************************************************)
\* the positions of the snapshot whose session path is a cached entry path
Listed == {j \in DOMAIN running : running[j] \in paths}

\* C13: reconciliation yields exactly the sessions of the registry snapshot
\* whose path is the path of a cached directory entry, in snapshot order.
C13_ReconciliationIsIntersection ==
    (last.op = "registry" /\ ~isDisposed) =>
        LET J == SeqOfSet(Listed)
        IN sessions = [i \in 1..Len(J) |-> running[J[i]]]

\* entries a/x and a/y, sessions [a/x, a/z]: reconciliation has kept [a/x]
C13_Witness ==
    /\ last.op = "registry"
    /\ paths = {<<"a", "/", "x">>, <<"a", "/", "y">>}
    /\ running = << <<"a", "/", "x">>, <<"a", "/", "z">> >>
    /\ sessions = << <<"a", "/", "x">> >>

\* C14: in every pathChanged and refreshed handler, and between handlers,
\* every session of sessions() has the path of an entry of items().
C14_SessionsWithinItems ==
    /\ \A i \in DOMAIN sessions :
          \E n \in items : sessions[i] = ChildPath(path, n)
    /\ \A e \in DOMAIN sig :
          sig[e].name \in {"pathChanged", "refreshed"} =>
             \A i \in DOMAIN sig[e].sessions :
                \E n \in sig[e].items :
                   sig[e].sessions[i] = ChildPath(sig[e].path, n)

(***************************************************************************)
(* Restoration claims.                                                     *)
(***************************************************************************)
\* the cd('/') and the cd(localPath) made by restore
RootCalls == {c \in DOMAIN calls : calls[c].kind = "restore" /\ calls[c].raw = <<"/">>}

PathCalls == {c \in DOMAIN calls : calls[c].kind = "restore" /\ calls[c].raw # <<"/">>}

\* C15: when restore finds a persisted non-empty path p it navigates to the
\* root and then to p: the navigation to p starts only after the one to the
\* root has settled, it fetches p, and restored resolves only after it has
\* settled.
C15_RestoreRootThenPath ==
    Truthy(rst.p) =>
        /\ \A d \in PathCalls :
              /\ \E c \in RootCalls : c < d /\ calls[c].done
              /\ calls[d].target = rst.p
        /\ (restored /\ ~rst.failed) => \E d \in PathCalls : calls[d].done

\* C16: once a restore call has set the key, a later restore call leaves the
\* key, the state store, the current path and the restored promise as they
\* are and issues no fetch.
C16_RestoreIsIdempotent ==
    [][(key # NoKey /\ last'.op = "restore") =>
          /\ key' = key
          /\ store' = store
          /\ path' = path
          /\ restored' = restored
          /\ fetches' = fetches
          /\ calls' = calls
          /\ rst'.pc = rst.pc]_vars

\* a second restore call, with another id, was made while the first restore
\* was still reading the state store
C16_Witness ==
    /\ last.op = "restore"
    /\ rst.n = 2
    /\ rst.pc = "fetching"
    /\ key = "i"

\* C17: if reading or validating the persisted record fails, the record is
\* removed from the state store, restore does not reject and restored
\* resolves.
C17_ReadFailureDiscardsRecord ==
    (rst.failed /\ rst.pc # "removing") =>
        /\ rst.pc = "done"
        /\ restored
        /\ last.op = "removed" => store[key] = Null

(***************************************************************************)
(* Disposal claims.                                                        *)
(***************************************************************************)
\* C19: after dispose() no continuation of a cd that was pending at the
\* disposal (a waiting cd, a response handler, the 404 root fallback) issues
\* a directory fetch.
C19_NoFetchAfterDispose ==
    \A f \in DOMAIN fetches : ~fetches[f].direct => ~fetches[f].late

(***************************************************************************)
(* Claims about upload() before the transfer.                              *)
(***************************************************************************)
\* C18: no confirmation, refresh, encode step or save of upload() is started
\* with the model already disposed: the upload rejects with the disposed
\* error instead.
C18_DisposedCheckBeforeEverySuspension ==
    \A u \in DOMAIN ups :
        /\ \A i \in DOMAIN ups[u].asked : ~ups[u].asked[i].late
        /\ \A i \in DOMAIN ups[u].saves : ~ups[u].saves[i].late

\* C20: upload() of a file larger than LARGE_FILE_SIZE on a backend without
\* chunked transport rejects at once with the size-limit error: it requests
\* no confirmation, no refresh, no encode step and no save and emits no
\* uploadChanged event.
C20_OversizedRejectedAtOnce ==
    \A u \in DOMAIN ups :
        (ups[u].size > LARGE_FILE_SIZE /\ ~ups[u].sc) =>
            /\ ups[u].pc = "rejected"
            /\ ups[u].err = "size limit"
            /\ ups[u].asked = <<>>
            /\ ups[u].saves = <<>>
            /\ ups[u].events = <<>>

\* an oversized file was given to upload() on a backend without chunked
\* transport, with the model not disposed
C20_Witness ==
    /\ ~isDisposed
    /\ \E u \in DOMAIN ups :
          /\ ups[u].size > LARGE_FILE_SIZE
          /\ ~ups[u].sc
          /\ ups[u].pc = "rejected"

(***************************************************************************)
(* Claims about the front of upload(file): the dialogs and the refresh.    *)
(***************************************************************************)
\* upload u has started the step what (a dialog, a refresh or an encode)
Asked(u, what) == \E i \in DOMAIN ups[u].asked : ups[u].asked[i].what = what

\* C21: upload() requests the large-file confirmation exactly when the file
\* is larger than LARGE_FILE_SIZE and the backend is chunk-capable; if the
\* confirmation is declined the upload rejects with the cancellation error,
\* having issued no refresh and no save and emitted no uploadChanged event,
\* and the step that declines emits no connectionFailure.
C21_LargeFileConfirmation ==
    /\ \A u \in DOMAIN ups :
          LET r == ups[u]
          IN /\ Asked(u, "confirmLarge") <=> (r.size > LARGE_FILE_SIZE /\ r.sc)
             /\ r.err = "cancelled" =>
                   /\ r.pc = "rejected"
                   /\ Len(r.asked) = 1
                   /\ ~Asked(u, "refresh")
                   /\ r.saves = <<>>
                   /\ r.events = <<>>
    /\ last.op = "confirm" =>
          \A i \in DOMAIN sig : sig[i].name # "connectionFailure"

\* a large-file confirmation has been declined
C21_Witness ==
    \E u \in DOMAIN ups :
       /\ ups[u].err = "cancelled"
       /\ ups[u].size > LARGE_FILE_SIZE
       /\ ups[u].sc
       /\ last.op = "confirm"

\* the position in the steps of upload u at which it started the step what
\* (0 if it never did)
AskedAt(u, what) ==
    IF Asked(u, what)
    THEN CHOOSE i \in DOMAIN ups[u].asked :
            /\ ups[u].asked[i].what = what
            /\ \A j \in DOMAIN ups[u].asked : ups[u].asked[j].what = what => i <= j
    ELSE 0

\* the step in which refresh() returns to upload u: the overwrite decision
\* is requested exactly when the listing then holds an entry of its name
C22_CollisionStep ==
    \A u \in DOMAIN ups :
       (/\ Refreshing(ups[u])
        /\ ~Refreshing(ups'[u])
        /\ ups'[u].err \notin {"disposed", "poll disposed"})
       => ((ups'[u].pc = "confirmOverwrite") <=> (ups[u].name \in items'))

\* what holds of every upload with respect to the overwrite decision
C22_CollisionState ==
    \A u \in DOMAIN ups :
       LET r == ups[u]
       IN /\ Asked(u, "overwrite") =>
                /\ Asked(u, "refresh")
                /\ AskedAt(u, "refresh") < AskedAt(u, "overwrite")
          /\ Asked(u, "encode") =>
                /\ Asked(u, "refresh")
                /\ AskedAt(u, "refresh") < AskedAt(u, "encode")
          /\ r.pc = "confirmOverwrite" => Asked(u, "overwrite")
          /\ r.err = "File not uploaded" =>
                /\ r.pc = "rejected"
                /\ Asked(u, "overwrite")
                /\ r.saves = <<>>
                /\ r.events = <<>>

\* C22: upload() refreshes the listing before the collision check; the
\* overwrite decision is requested exactly when the listing then contains an
\* entry with the file's name; if it is declined the upload rejects with
\* 'File not uploaded', having issued no save and emitted no uploadChanged.
C22_CollisionCheck == [](C22_CollisionState) /\ [][C22_CollisionStep]_vars

\* an overwrite decision has been declined
C22_Witness ==
    \E u \in DOMAIN ups :
       /\ ups[u].err = "File not uploaded"
       /\ last.op = "overwrite"

(***************************************************************************)
(* Claims about the whole-file branch of _upload.                          *)
(***************************************************************************)
\* what holds of every whole-file upload: at most one save, exactly one once
\* it has resolved, no chunk index, no uploadChanged event, no entry of its own
C23_WholeFileState ==
    \A u \in DOMAIN ups :
       LET r == ups[u]
       IN ~r.chunked =>
            /\ Len(r.saves) <= 1
            /\ r.pc \in {"saving", "resolved"} => Len(r.saves) = 1
            /\ \A i \in DOMAIN r.saves : r.saves[i].chunk = 0
            /\ r.events = <<>>
            /\ r.err \in {"read", "save"} => r.pc = "rejected"
            /\ \A i \in DOMAIN uploads : uploads[i].u # u

\* the step in which the encode or the save of a whole-file upload fails
\* leaves the entries of the other uploads where they are (all the uploads
\* talk to the same backend)
C23_WholeFileStep ==
    \A u \in DOMAIN ups :
       (/\ ~ups[u].chunked
        /\ ups[u].pc \in {"reading", "saving"}
        /\ ups'[u].pc = "rejected"
        /\ \A v \in DOMAIN ups : ups[v].sc = ups[u].sc)
       => uploads' = uploads

\* C23: a whole-file upload issues exactly one save, carrying no chunk
\* index, and emits no uploadChanged event; if the encode or the save fails
\* the upload rejects with that error, uploads() holds no entry for it, and
\* the entry of no other upload has been removed.
C23_WholeFileUpload == [](C23_WholeFileState) /\ [][C23_WholeFileStep]_vars

(***************************************************************************)
(* Claims about change notifications and the refreshes of the poll.        *)
(***************************************************************************)
\* v is the path of an entry of the directory dir
EntryOf(v, dir) == \E n \in FileNames \cup DirNames : v = ChildPath(dir, n)

\* the change of a step of onFileChanged concerns the current directory
Relevant(old, new) == EntryOf(old, path) \/ EntryOf(new, path)

\* C24: a content-change notification is acted on if and only if the
\* directory of its old path or of its new path is the current directory:
\* when relevant the handler schedules a poll refresh without issuing or
\* awaiting a fetch, re-runs the session reconciliation and then emits
\* fileChanged with the same change; when not relevant it schedules no
\* refresh, leaves the sessions as they are and emits nothing.
C24_ChangeActedOnIffRelevant ==
    [][last'.op = "fileChanged" =>
         IF Relevant(last'.old, last'.new)
         THEN /\ poll'.phase # "idle"
              /\ poll.phase = "idle" => poll'.phase = "due"
              /\ Len(fetches') = Len(fetches)
              /\ calls' = calls
              /\ sessions' = SelectSeq(running, LAMBDA m : m \in paths)
              /\ sig' = <<At(Event("fileChanged", last'.old, last'.new),
                             path, items, sessions')>>
         ELSE /\ poll' = poll
              /\ sessions' = sessions
              /\ fetches' = fetches
              /\ sig' = <<>>]_vars

\* a relevant change has been handled away from the root, with a session
\* retained by the reconciliation
C24_Witness ==
    /\ last.op = "fileChanged"
    /\ path # rootPath
    /\ sig # <<>>
    /\ sessions # <<>>
    /\ poll.phase = "due"

\* the number of connectionFailure emissions among the signals es
Failures(es) == Cardinality({i \in DOMAIN es : es[i].name = "connectionFailure"})

\* C25: a transport failure of a directory fetch, whether the fetch was
\* started by cd, by a poll tick or by refresh(), is reported through exactly
\* one connectionFailure emission, and the promise of every cd call on that
\* fetch, and of every refresh() awaiting it, resolves: the calls are settled
\* and an upload awaiting the refresh goes on to its collision check.
C25_FailureReportedOnce ==
    [][(last'.op = "settle" /\ last'.resp = "err") =>
         LET f == last'.f
         IN /\ Failures(sig') = 1
            /\ \A c \in DOMAIN calls : calls[c].f = f => calls'[c].done
            /\ \A u \in DOMAIN ups :
                  (ups[u].pc = "refreshing" /\ calls[ups[u].c].f = f)
                  => ups'[u].pc \in {"confirmOverwrite", "reading"}]_vars

\* the fetch of a refresh() has failed and the upload awaiting it has gone on
C25_Witness ==
    /\ last.op = "settle"
    /\ last.resp = "err"
    /\ calls[fetches[last.f].by].kind = "refresh"
    /\ \E u \in DOMAIN ups : ups[u].pc \in {"confirmOverwrite", "reading"}

\* C26: refresh() forces a fetch of the current (or pending) directory, at
\* most one on its own behalf, and neither returns nor emits refreshed before
\* that fetch has settled, so that the listing read right after an awaited
\* refresh() (upload's collision check) is not older than the refresh call:
\* in the step in which refresh() returns to an upload, the factory call of
\* its tick has settled on a fetch issued after the call of refresh().  (A
\* tick that stood by because the page is hidden is left aside.)
C26_RefreshFetchesAfresh ==
    [][\A u \in DOMAIN ups :
         (/\ Refreshing(ups[u])
          /\ ~Refreshing(ups'[u])
          /\ ups'[u].err \notin {"disposed", "poll disposed"}
          /\ last'.op # "standby")
         => /\ ups[u].pc = "refreshing"
            /\ calls'[ups[u].c].done
            /\ Cardinality({g \in DOMAIN fetches' : fetches'[g].by = ups[u].c}) <= 1
            /\ LET f == calls'[ups[u].c].f
               IN /\ f \in DOMAIN fetches'
                  /\ fetches'[f].st = "resolved"
                  /\ f > ups[u].before]_vars

(***************************************************************************)
(* Claims about items() of the filtering models.                           *)
(***************************************************************************)
\* entry v is not hidden, or hidden files are included
Visible(v) == includeHiddenFiles \/ v.name[1] # "."

\* entry v is a directory, or a file the filter accepts
Accepted(v) == v.type = "directory" \/ filter[v.name] \in {"true", "object"}

\* C28: items() of FilterFileBrowserModel yields, in cached order, exactly the
\* cached entries that (a) are not hidden unless hidden files are included
\* and (b) are directories, or files for which the filter returns true or a
\* match descriptor; files for which it returns false or null are excluded,
\* and with no filter supplied every entry that is not hidden is yielded.
C28_FilteredItems ==
    last.op = "items" =>
       /\ shown = SelectSeq(entries, LAMBDA v : Visible(v) /\ Accepted(v))
       /\ \A i \in DOMAIN shown :
             shown[i].type = "file" => filter[shown[i].name] \notin {"false", "null"}
       /\ filter = DefaultFilter => shown = SelectSeq(entries, Visible)

\* items() has left out a hidden entry or a file the filter rejects with null,
\* and has yielded a file for which the filter returns a match descriptor
C28_Witness ==
    /\ last.op = "items"
    /\ Len(shown) < Len(entries)
    /\ \E i \in DOMAIN entries :
          entries[i].type = "file" /\ filter[entries[i].name] = "null"
    /\ \E i \in DOMAIN shown :
          shown[i].type = "file" /\ filter[shown[i].name] = "object"

(***************************************************************************)
(* Claims about the progress values and the events of a chunked upload.    *)
(***************************************************************************)
\* C29: every upload entry placed in uploads() or carried by an uploadChanged
\* event has a progress p = num / size with 0 <= p < 1, for every file size
\* for which the chunked path is taken.
C29_ProgressBelowOne ==
    /\ \A i \in DOMAIN uploads :
          /\ 0 <= uploads[i].num
          /\ uploads[i].num < ups[uploads[i].u].size
    /\ \A u \in DOMAIN ups :
          \A i \in DOMAIN ups[u].events :
             /\ 0 <= ups[u].events[i].num
             /\ ups[u].events[i].num < ups[u].size

\* a chunked upload of a whole number of pieces has sent its last piece: its
\* entry and its last update carry the largest progress it reaches
C29_Witness ==
    \E u \in DOMAIN ups :
       /\ ups[u].chunked
       /\ ups[u].size = (MaxPieces - 1) * CHUNK_SIZE
       /\ ups[u].start + CHUNK_SIZE = ups[u].size
       /\ \E i \in DOMAIN uploads : uploads[i].u = u /\ uploads[i].num = ups[u].start
       /\ \E i \in DOMAIN ups[u].events :
             ups[u].events[i].name = "update" /\ ups[u].events[i].num = ups[u].start

\* C30: in a chunked upload the events are start (progress 0) before the
\* first piece is sent, then one update after each successfully saved piece,
\* carrying the bytes saved so far, then finish after the terminal piece: the
\* first event is start, the number of update events equals the number of
\* pieces saved, each update carries the bytes saved when it was emitted, and
\* finish is the last event of an upload that resolved.
C30_UpdateAfterEachSavedPiece ==
    \A u \in DOMAIN ups :
       LET r == ups[u]
           ev == r.events
           upd == SelectSeq(ev, LAMBDA e : e.name = "update")
       IN r.chunked =>
            /\ ev # <<>> => (ev[1].name = "start" /\ ev[1].num = 0)
            /\ Len(upd) = r.acked
            /\ \A i \in DOMAIN upd : upd[i].num = (i - 1) * CHUNK_SIZE
            /\ r.pc = "resolved" => ev[Len(ev)].name = "finish"

(***************************************************************************)
(* Claims about failures and destinations of a chunked upload.             *)
(***************************************************************************)
\* the number of encode steps upload u has started
Encodes(u) ==
    Cardinality({i \in DOMAIN ups[u].asked : ups[u].asked[i].what = "encode"})

\* a chunked upload one of whose saves failed has rejected with the error of
\* that save, the last one it issued
C31_FailedState ==
    \A u \in DOMAIN ups :
       (ups[u].chunked /\ ups[u].err = "save") =>
          /\ ups[u].pc = "rejected"
          /\ Len(ups[u].saves) = ups[u].acked + 1
          /\ Encodes(u) = Len(ups[u].saves)

\* from then on it neither encodes nor saves
C31_FailedStep ==
    \A u \in DOMAIN ups :
       (ups[u].chunked /\ ups[u].err = "save") =>
          /\ ups'[u].saves = ups[u].saves
          /\ ups'[u].asked = ups[u].asked
          /\ ups'[u].err = "save"

\* C31: in a chunked upload, once the save of a piece fails no further piece
\* is encoded or saved for that upload, and the upload's promise rejects with
\* the error of that piece.
C31_NoPieceAfterFailure == [](C31_FailedState) /\ [][C31_FailedStep]_vars

\* the save of the second piece of a chunked upload has failed
C31_Witness ==
    \E u \in DOMAIN ups :
       /\ ups[u].chunked
       /\ ups[u].err = "save"
       /\ ups[u].acked = 1
       /\ Pieces(ups[u].size) > 2

\* C32: all pieces of one chunked upload are saved to one and the same
\* destination path, fixed when the transfer starts, even if the current
\* directory of the model changes while the upload is running: every save
\* goes to the path the upload took at its start, and that path never changes.
C32_OneDestinationPath ==
    /\ [](\A u \in DOMAIN ups :
            \A i \in DOMAIN ups[u].saves :
               /\ ups[u].saves[i].path = ups[u].path
               /\ ups[u].saves[i].path = ups[u].saves[1].path)
    /\ [][\A u \in DOMAIN ups :
            ups[u].path # Null => ups'[u].path = ups[u].path]_vars

\* a chunked upload has saved two pieces, and the model has moved to another
\* directory since the upload started
C32_Witness ==
    \E u \in DOMAIN ups :
       /\ ups[u].chunked
       /\ Len(ups[u].saves) >= 2
       /\ ups[u].path # DestPath(path, ups[u].name)

(***************************************************************************)
(* Claims about the pending handle and the resolution of targets.          *)
(***************************************************************************)
\* C33: while the model is not disposed, the in-flight handle and the pending
\* path are set exactly when a directory fetch is outstanding, the handle is
\* that of an outstanding fetch and the pending path is its target.
C33_PendingIffFetchOutstanding ==
    ~isDisposed =>
       /\ (pending # 0) <=> (InFlight # {})
       /\ pending # 0 =>
             /\ pending \in InFlight
             /\ pendingPath = fetches[pending].target
       /\ pending = 0 => pendingPath = Null

\* the calls of the step that are new
NewCalls == {c \in DOMAIN calls' : c \notin DOMAIN calls}

\* C34: a relative target passed to cd is resolved against the current path
\* at the moment cd is called, and the fetch the call issues after waiting for
\* a pending fetch uses that target even if the path has changed meanwhile.
C34_TargetResolvedAtCall ==
    /\ [][(\A n \in NewCalls :
               calls'[n].raw # <<".">> =>
                  calls'[n].target = resolvePath(path, calls'[n].raw))
           /\ (\A d \in DOMAIN calls : calls'[d].target = calls[d].target)]_vars
    /\ [](\A c \in DOMAIN calls :
            calls[c].f # 0 => fetches[calls[c].f].target = calls[c].target)

\* cd('..') was called at 'a' while the navigation to 'a/a' was pending, and
\* after that navigation succeeded it has fetched the parent of 'a'
C34_Witness ==
    \E c \in DOMAIN calls :
       /\ calls[c].raw = <<"..">>
       /\ calls[c].f # 0
       /\ ~fetches[calls[c].f].direct
       /\ fetches[calls[c].f].oldValue = <<"a", "/", "a">>
       /\ fetches[calls[c].f].target = rootPath

(***************************************************************************)
(* Claims about the directory an upload is saved into.                     *)
(***************************************************************************)

\* C35: the directory whose listing upload() checks for a same-named entry
\* is the directory the file is then saved into, even if cd completes while
\* the refresh or the overwrite dialog of that upload is pending.
C35_SavedWhereChecked ==
    \A u \in DOMAIN ups :
       (ups[u].checked # Null /\ ups[u].path # Null) =>
          ups[u].path = DestPath(ups[u].checked, ups[u].name)

(***************************************************************************)
(* Claims about the saved path.                                            *)
(***************************************************************************)

\* C36: with a state store and the key set, once the path has changed since
\* the key was set, whenever no fetch is pending the path saved under the key
\* is the current path; and no save is made when the key is unset or the
\* path did not change.
C36_SavedPathIsCurrent ==
    /\ []((/\ hasState /\ key # NoKey /\ pending = 0
           /\ \E f \in DOMAIN fetches : fetches[f].changed) => store[key] = path)
    /\ [][store' # store => (key # NoKey /\ path' # path)]_vars

\* C37: after the first restore(id) call the restored promise eventually
\* resolves, provided every external call eventually settles, whether it
\* succeeds or fails.
C37_RestoredEventuallyResolves == (key # NoKey) ~> restored

(***************************************************************************)
(* Claims about the disposed model.                                        *)
(***************************************************************************)

\* C38: once the model is disposed its items and sessions are empty and stay
\* empty and its path stays unchanged, whatever fetch responses, fetch
\* errors, registry changes and content changes arrive later; a second
\* dispose() changes nothing.
C38_DisposedStaysEmpty ==
    /\ [](isDisposed => (items = {} /\ sessions = <<>>))
    /\ [][isDisposed => (path' = path /\ isDisposed')]_vars

\* the registry has changed, after the disposal, to sessions on entries the
\* model had cached, and a fetch of another directory has succeeded
C38_Witness ==
    /\ isDisposed
    /\ last.op = "registry"
    /\ populateSessions(running, paths) # <<>>
    /\ \E f \in DOMAIN fetches :
          /\ fetches[f].st = "resolved" /\ fetches[f].resp = "ok"
          /\ fetches[f].target # path

(***************************************************************************)
(* Claims about the upload status items.                                   *)
(***************************************************************************)

\* the status model has an item for the upload saved as p
HasItem(st, p) == \E i \in DOMAIN st.items : st.items[i].path = <<p>>

\* the timer of the finished upload p is still running
TimerRunning(st, p) == \E i \in DOMAIN st.timers : st.timers[i].path = p

\* the items of other uploads than p, in order
OtherItems(st, p) == SelectSeq(st.items, LAMBDA it : it.path # <<p>>)

\* C39: the item of every finished upload is removed once its completion
\* delay has elapsed; the timer of a finished upload removes no item of
\* another upload; when every upload has finished or failed and every timer
\* has run, there is no item left.
C39_TimersRemoveTheirOwnItem ==
    /\ [](\A p \in StatusPaths :
            (status.phase[p] = "finished" /\ ~TimerRunning(status, p)) =>
               ~HasItem(status, p))
    /\ [][status.timers # <<>> /\ status'.timers = Tail(status.timers) =>
             OtherItems(status', Head(status.timers).path)
                = OtherItems(status, Head(status.timers).path)]_vars

(***************************************************************************)
(* Claims about the beforeunload handler.                                  *)
(***************************************************************************)

\* the uploads that are transferring data: reading a blob or saving it
Transferring == {u \in DOMAIN ups : ups[u].pc \in {"reading", "saving"}}

\* C40: while the model listens to beforeunload, its handler asks for
\* confirmation exactly when at least one upload started through upload()
\* is still transferring data, whole-file or chunked, and never once every
\* upload has finished or failed.
C40_AsksWhileTransferring ==
    ~isDisposed => (unloadAsks <=> Transferring # {})

====
